---- MODULE Spec2Model ----
(***************************************************************************)
(* Verification model of gGenouville/optiFretSNCF.                         *)
(*                                                                         *)
(* The parts of the repository are modelled each with its own              *)
(* specification over the same variables:                                  *)
(*   SpecNB  - the notebook "Code plus d'actualite.ipynb": the cells that  *)
(*             create the Gurobi variables and post the constraints;       *)
(*   SpecRM  - the README formalisation (arrival / departure trains,       *)
(*             yards, occupancy indicators, peak);                         *)
(*   SpecCal - the calendar functions of code/module/utils1                *)
(*             (convertir_en_minutes, traitement_doublons,                 *)
(*             creation_limites_machines);                                 *)
(*   SpecCor - init_dict_correspondance of code/module/utils1;             *)
(*   SpecPar - the notebook's constraints posted by separate builders per  *)
(*             wagon and per machine, merged at the end;                   *)
(*   SpecMA  - the notebook followed by a solve and the read-back of the   *)
(*             values.                                                     *)
(*   SpecGen - the generator of the disjunctive (big-M) constraints of one *)
(*             machine;                                                    *)
(*   SpecMX  - the README formalisation of one machine: mutual exclusion   *)
(*             of the trains and opening intervals.                        *)
(*                                                                         *)
(* A model under construction is a registry of constraints (a set of       *)
(* records).  "Every assignment satisfying the model" is a universal       *)
(* quantification over the values of the variables a property mentions,    *)
(* restricted by every registered constraint that mentions only those      *)
(* variables.                                                              *)
(***************************************************************************)
EXTENDS Integers, Sequences, FiniteSets, TLC

VARIABLES
    pc,        \* position of the run (which cell / family / step is next)
    mvars,     \* variables created in the model: name -> shape
    t_a,       \* notebook cell 3: arrival times of the wagons (or None)
    t_d,       \* notebook cell 3: departure times of the wagons (or None)
    constrs,   \* the constraints posted so far (model registry)
    it,        \* index of the next loop iteration of the current cell
    inst,      \* README model: the instance data
    cal,       \* calendar functions: inputs, intermediate lists, output
    cor,       \* init_dict_correspondance: the table read and the dictionary d
    ma         \* model assembly: the builders' registries, the solve status
               \* and the solution read back

vars == <<pc, mvars, t_a, t_d, constrs, it, inst, cal, cor, ma>>

None == << >>
NoVar == <<"none">>

(***************************************************************************)
(* Bounds of the exploration                                               *)
(***************************************************************************)
Step == 5            \* grid of the start times tried in the notebook model
MaxTime == 600       \* largest start time tried for ordering / release / due
MaxExclTime == 330   \* largest start time tried for pairs of tasks
CalStep == 15        \* grid of the start times tried against the calendar
MaxCalTime == 11100  \* largest start time tried against the calendar
NumArr == 2          \* README model: number of arrival trains
NumDep == 2          \* README model: number of departure trains
MaxSlot == 3         \* README model: quarter-hour slots 0..MaxSlot
MaxQuarter == 6      \* README model: start times 0..MaxQuarter (quarter-hours)
MaxStagger == 1      \* arrival patterns t_a[n] = 60*k*n, k in 0..MaxStagger
MaxWindows == 2      \* calendar: at most MaxWindows windows in a tried row
MaxWeeks == 2        \* due times t_d fall in the weeks 0..MaxWeeks
MaxRows == 3         \* correspondences: at most MaxRows rows in the table

(***************************************************************************)
(* Constraints as data                                                     *)
(***************************************************************************)
\* sum(terms[v] * v) op k
Lin(terms, op, k) ==
    [kind |-> "lin", bin |-> NoVar, terms |-> terms, op |-> op, k |-> k]

\* addGenConstrIndicator(bin, True, sum(terms[v] * v) op k)
Ind(bin, terms, op, k) ==
    [kind |-> "ind", bin |-> bin, terms |-> terms, op |-> op, k |-> k]

\* res == product of the variables of terms
Prod(res, terms) ==
    [kind |-> "prod", bin |-> res, terms |-> terms, op |-> "==", k |-> 0]

\* res == min over the variables v of terms of terms[v] * v
MinOf(res, terms) ==
    [kind |-> "min", bin |-> res, terms |-> terms, op |-> "==", k |-> 0]

VarsOf(c) == (DOMAIN c.terms) \cup (IF c.bin = NoVar THEN {} ELSE {c.bin})

RECURSIVE SumTerms(_, _, _)
SumTerms(terms, val, todo) ==
    IF todo = {} THEN 0
    ELSE LET v == CHOOSE x \in todo : TRUE
         IN terms[v] * val[v] + SumTerms(terms, val, todo \ {v})

RECURSIVE ProdTerms(_, _)
ProdTerms(val, todo) ==
    IF todo = {} THEN 1
    ELSE LET v == CHOOSE x \in todo : TRUE
         IN val[v] * ProdTerms(val, todo \ {v})

Cmp(a, op, b) ==
    CASE op = "<=" -> a <= b
      [] op = ">=" -> a >= b
      [] op = "==" -> a = b

LinHolds(c, val) == Cmp(SumTerms(c.terms, val, DOMAIN c.terms), c.op, c.k)

Holds(c, val) ==
    CASE c.kind = "lin"  -> LinHolds(c, val)
      [] c.kind = "ind"  -> (val[c.bin] = 1) => LinHolds(c, val)
      [] c.kind = "prod" -> val[c.bin] = ProdTerms(val, DOMAIN c.terms)
      [] c.kind = "min"  ->
            \/ DOMAIN c.terms = {}
            \/ /\ \E v \in DOMAIN c.terms : val[c.bin] = c.terms[v] * val[v]
               /\ \A v \in DOMAIN c.terms : val[c.bin] <= c.terms[v] * val[v]

\* the registered constraints that mention only variables of V
About(V) == {c \in constrs : VarsOf(c) \subseteq V}

Sat(cs, val) == \A c \in cs : Holds(c, val)

\* Can the binary variables B be given values under which cs holds, the
\* other variables being as in val?  A binary whose indicator body is false
\* under val must be 0, and so must a product with such a factor; the
\* remaining binaries are enumerated.
ExistsBin(cs, val, B) ==
    LET off0 == {b \in B : \E c \in cs :
                    /\ c.kind = "ind" /\ c.bin = b
                    /\ DOMAIN c.terms \subseteq DOMAIN val
                    /\ ~LinHolds(c, val)}
        off == off0 \cup {b \in B : \E c \in cs :
                    /\ c.kind = "prod" /\ c.bin = b
                    /\ DOMAIN c.terms \cap off0 # {}}
        free == B \ off
    IN \E f \in [free -> {0, 1}] : Sat(cs, val @@ f @@ [b \in off |-> 0])

(***************************************************************************)
(* Notebook: cell 2, the variables                                         *)
(***************************************************************************)
N == 5
M == 7
S == 60 * 24 * 7

Wagons == 0 .. (N - 1)
Tasks == 0 .. (M - 1)

tv(m, n) == <<"t", m, n>>
d1(m, n1, n2, k) == <<"delta_1", m, n1, n2, k>>
d2(m, n, i) == <<"delta_2", m, n, i>>

Cell2Vars ==
    [t |-> <<M, N>>, delta_1 |-> <<M, N, N, 2>>, delta_2 |-> <<M, N, 11>>]

(***************************************************************************)
(* Notebook: cell 3, the data                                              *)
(***************************************************************************)
T == [m \in Tasks |-> <<15, 45, 15, 15, 150, 15, 20>>[m + 1]]

TaInputs == {None} \cup {[n \in Wagons |-> 60 * k * n] : k \in 0 .. MaxStagger}
TdInputs ==
    {None} \cup {[n \in Wagons |->
                     S * w + 60 * MaxStagger * n + 300 - 30 * (n % 2)] :
                 w \in 0 .. MaxWeeks}

(***************************************************************************)
(* Notebook: cell 4, ordering of the tasks of a wagon, release and due     *)
(***************************************************************************)
ReleaseConstr(n) == Lin((tv(0, n) :> 1), ">=", t_a[n])

\* DueConstr with the duration of the last task forgotten
M_DueConstr(n) == Lin((tv(M - 1, n) :> 1), "<=", t_d[n])

DueConstr(n) == Lin((tv(M - 1, n) :> 1), "<=", t_d[n] - T[M - 1])

\* OrderConstr with the duration of the task forgotten
M_OrderConstr(m, n) ==
    Lin((tv(m, n) :> 1) @@ (tv(m + 1, n) :> -1), "<=", 0)

OrderConstr(m, n) ==
    Lin((tv(m, n) :> 1) @@ (tv(m + 1, n) :> -1), "<=", 0 - T[m])

Cell4Order(n) == {OrderConstr(m, n) : m \in 0 .. (M - 2)}

(***************************************************************************)
(* Notebook: cell 6, at most one wagon per machine at any time             *)
(***************************************************************************)
MachineTasks == <<2, 4, 5>>

\* BeforeConstr with the sign of the duration inverted
M_BeforeConstr(m, n1, n2) ==
    Ind(d1(m, n1, n2, 0), (tv(m, n2) :> 1) @@ (tv(m, n1) :> -1), "<=", T[m])

BeforeConstr(m, n1, n2) ==
    Ind(d1(m, n1, n2, 0), (tv(m, n2) :> 1) @@ (tv(m, n1) :> -1), "<=", 0 - T[m])

\* AfterConstr with the duration of the task forgotten
M_AfterConstr(m, n1, n2) ==
    Ind(d1(m, n1, n2, 1), (tv(m, n2) :> 1) @@ (tv(m, n1) :> -1), ">=", 0)

AfterConstr(m, n1, n2) ==
    Ind(d1(m, n1, n2, 1), (tv(m, n2) :> 1) @@ (tv(m, n1) :> -1), ">=", T[m])

EitherConstr(m, n1, n2) ==
    Lin((d1(m, n1, n2, 0) :> 1) @@ (d1(m, n1, n2, 1) :> 1), ">=", 1)

Cell6Body(m, n1, n2) ==
    {BeforeConstr(m, n1, n2), AfterConstr(m, n1, n2), EitherConstr(m, n1, n2)}

\* for n1 in range(N-1): for n2 in range(n1+1,N)
RECURSIVE PairsFrom(_, _)
PairsFrom(n1, n2) ==
    IF n1 >= N - 1 THEN << >>
    ELSE IF n2 >= N THEN PairsFrom(n1 + 1, n1 + 2)
    ELSE << <<n1, n2>> >> \o PairsFrom(n1, n2 + 1)

WagonPairs == PairsFrom(0, 1)

\* the iterations of a loop "for m in ms: for x in xs", in order
RECURSIVE LoopOver(_, _)
LoopOver(ms, xs) ==
    IF ms = << >> THEN << >>
    ELSE [i \in 1 .. Len(xs) |-> <<Head(ms)>> \o xs[i]] \o LoopOver(Tail(ms), xs)

Cell6Iters == LoopOver(MachineTasks, WagonPairs)

(***************************************************************************)
(* Notebook: cell 8, opening hours of the formation yard and the machines  *)
(***************************************************************************)
Limites ==
    [i \in 0 .. 7 |->
        60 * <<5, 13, 5 * 24 + 13, 5 * 24 + 21, 6 * 24 + 13, 6 * 24 + 21,
               7 * 24 + 5, 7 * 24 + 13>>[i + 1]]

CalendarTasks == <<2, 3, 4, 5>>

\* EndsBefore with the duration of the task forgotten
M_EndsBefore(m, n, i) == Ind(d2(m, n, i), (tv(m, n) :> 1), "<=", Limites[i])

\* delta_2[m,n,i] = 1  =>  t[m,n] <= Limites[i] - T[m]   (i even)
EndsBefore(m, n, i) == Ind(d2(m, n, i), (tv(m, n) :> 1), "<=", Limites[i] - T[m])

\* delta_2[m,n,i] = 1  =>  t[m,n] >= Limites[i]          (i odd)
StartsAfter(m, n, i) == Ind(d2(m, n, i), (tv(m, n) :> 1), ">=", Limites[i])

\* delta_2[m,n,r] == delta_2[m,n,i] * delta_2[m,n,j]
Both(m, n, r, i, j) == Prod(d2(m, n, r), (d2(m, n, i) :> 1) @@ (d2(m, n, j) :> 1))

\* OneOpening over the indicators of wagon 0, whatever the wagon
M_OneOpening(m, n) ==
    Lin((d2(m, 0, 0) :> 1) @@ (d2(m, 0, 8) :> 1) @@ (d2(m, 0, 9) :> 1)
            @@ (d2(m, 0, 10) :> 1) @@ (d2(m, 0, 7) :> 1), ">=", 1)

OneOpening(m, n) ==
    Lin((d2(m, n, 0) :> 1) @@ (d2(m, n, 8) :> 1) @@ (d2(m, n, 9) :> 1)
            @@ (d2(m, n, 10) :> 1) @@ (d2(m, n, 7) :> 1), ">=", 1)

Cell8Body(m, n) ==
    {EndsBefore(m, n, 0), StartsAfter(m, n, 1), EndsBefore(m, n, 2),
     StartsAfter(m, n, 3), EndsBefore(m, n, 4), StartsAfter(m, n, 5),
     EndsBefore(m, n, 6), StartsAfter(m, n, 7),
     Both(m, n, 8, 1, 2), Both(m, n, 9, 3, 4), Both(m, n, 10, 5, 6),
     OneOpening(m, n)}

Cell8Iters == LoopOver(CalendarTasks, [n \in 1 .. N |-> <<n - 1>>])

(***************************************************************************)
(* Notebook: the run of the cells, top to bottom; an exception stops it    *)
(***************************************************************************)
NBInit ==
    /\ pc = "cell2"
    /\ mvars = << >>
    /\ t_a = None
    /\ t_d = None
    /\ constrs = {}
    /\ it = 0
    /\ inst = None
    /\ cal = None
    /\ cor = None
    /\ ma = None

NBCell2 ==
    /\ pc = "cell2"
    /\ mvars' = Cell2Vars
    /\ pc' = "cell3"
    /\ UNCHANGED <<t_a, t_d, constrs, it, inst, cal, cor, ma>>

NBCell3 ==
    /\ pc = "cell3"
    /\ \E a \in TaInputs, d \in TdInputs : t_a' = a /\ t_d' = d
    /\ pc' = "cell4"
    /\ it' = 0
    /\ UNCHANGED <<mvars, constrs, inst, cal, cor, ma>>

\* one iteration of "for n in range(N)"; subscripting None raises TypeError
NBCell4 ==
    /\ pc = "cell4"
    /\ IF t_a = None
       THEN /\ pc' = "error"
            /\ UNCHANGED <<constrs, it>>
       ELSE IF t_d = None
       THEN /\ pc' = "error"
            /\ constrs' = constrs \cup {ReleaseConstr(it)}
            /\ UNCHANGED it
       ELSE /\ constrs' = constrs \cup {ReleaseConstr(it), DueConstr(it)}
                                  \cup Cell4Order(it)
            /\ pc' = IF it + 1 = N THEN "cell6" ELSE "cell4"
            /\ it' = IF it + 1 = N THEN 1 ELSE it + 1
    /\ UNCHANGED <<mvars, t_a, t_d, inst, cal, cor, ma>>

\* NBCell6 rebuilding the registry from the constraints of the iteration
M_NBCell6 ==
    /\ pc = "cell6"
    /\ LET i == Cell6Iters[it]
       IN constrs' = Cell6Body(i[1], i[2], i[3])
    /\ pc' = IF it = Len(Cell6Iters) THEN "cell8" ELSE "cell6"
    /\ it' = IF it = Len(Cell6Iters) THEN 1 ELSE it + 1
    /\ UNCHANGED <<mvars, t_a, t_d, inst, cal, cor, ma>>

\* one iteration (m, n1, n2) of the three nested loops
NBCell6 ==
    /\ pc = "cell6"
    /\ LET i == Cell6Iters[it]
       IN constrs' = constrs \cup Cell6Body(i[1], i[2], i[3])
    /\ pc' = IF it = Len(Cell6Iters) THEN "cell8" ELSE "cell6"
    /\ it' = IF it = Len(Cell6Iters) THEN 1 ELSE it + 1
    /\ UNCHANGED <<mvars, t_a, t_d, inst, cal, cor, ma>>

\* one iteration (m, n) of the two nested loops
NBCell8 ==
    /\ pc = "cell8"
    /\ LET i == Cell8Iters[it]
       IN constrs' = constrs \cup Cell8Body(i[1], i[2])
    /\ pc' = IF it = Len(Cell8Iters) THEN "done" ELSE "cell8"
    /\ it' = IF it = Len(Cell8Iters) THEN 0 ELSE it + 1
    /\ UNCHANGED <<mvars, t_a, t_d, inst, cal, cor, ma>>

NBNext == NBCell2 \/ NBCell3 \/ NBCell4 \/ NBCell6 \/ NBCell8

SpecNB == NBInit /\ [][NBNext]_vars

(***************************************************************************)
(* Values tried for the variables                                          *)
(***************************************************************************)
Grid(max) == {x \in 0 .. max : x % Step = 0}

TimeDom == Grid(MaxTime)
ExclDom == Grid(MaxExclTime)
CalDom == {x \in 0 .. MaxCalTime : x % CalStep = 0}

NBBuilt == pc = "done" /\ mvars = Cell2Vars

(***************************************************************************)
(* C1: once the notebook model is built, every assignment that satisfies   *)
(* its constraints has, for every wagon n and every pair of consecutive    *)
(* tasks m, m+1, t[m,n] + T[m] <= t[m+1,n].                                *)
(***************************************************************************)
C1_TaskOrder ==
    NBBuilt =>
        \A n \in Wagons, m \in 0 .. (M - 2) :
            LET cs == About({tv(m, n), tv(m + 1, n)})
            IN \A x \in ExclDom, y \in ExclDom :
                Sat(cs, (tv(m, n) :> x) @@ (tv(m + 1, n) :> y)) => x + T[m] <= y

\* a built model in which some wagon's consecutive tasks can be placed
\* back to back
C1_Witness ==
    /\ NBBuilt
    /\ \A n \in Wagons, m \in 0 .. (M - 2) :
          /\ About({tv(m, n), tv(m + 1, n)}) # {}
          /\ \E x \in ExclDom, y \in ExclDom :
                /\ Sat(About({tv(m, n), tv(m + 1, n)}),
                       (tv(m, n) :> x) @@ (tv(m + 1, n) :> y))
                /\ x + T[m] = y

(***************************************************************************)
(* C2: once the notebook model is built, every assignment that satisfies   *)
(* its constraints starts the first task of each wagon at or after the     *)
(* wagon's arrival t_a[n] and ends its last task (start + duration) at or  *)
(* before the wagon's departure t_d[n].                                    *)
(***************************************************************************)
C2_ReleaseDue ==
    NBBuilt =>
        \A n \in Wagons :
            LET first == About({tv(0, n)})
                last == About({tv(M - 1, n)})
            IN /\ \A x \in TimeDom :
                     Sat(first, (tv(0, n) :> x)) => x >= t_a[n]
               /\ \A x \in TimeDom :
                     Sat(last, (tv(M - 1, n) :> x)) => x + T[M - 1] <= t_d[n]

\* a built model with a wagon that arrives after the time origin, whose
\* first task can start at the arrival and whose last task can end at the
\* departure
C2_Witness ==
    /\ NBBuilt
    /\ \E n \in Wagons :
          /\ t_a[n] > 0
          /\ Sat(About({tv(0, n)}), (tv(0, n) :> t_a[n]))
          /\ ~Sat(About({tv(0, n)}), (tv(0, n) :> t_a[n] - Step))
          /\ Sat(About({tv(M - 1, n)}), (tv(M - 1, n) :> t_d[n] - T[M - 1]))
          /\ t_d[n] - T[M - 1] \in TimeDom

(***************************************************************************)
(* C4: once the notebook model is built, for every machine task            *)
(* m in {2,4,5} and every unordered pair of distinct wagons, no assignment *)
(* that satisfies the constraints lets the intervals [t, t + T[m]) of the  *)
(* two wagons overlap.                                                     *)
(***************************************************************************)
PairVars(m, n1, n2) ==
    {d1(m, n1, n2, 0), d1(m, n1, n2, 1), d1(m, n2, n1, 0), d1(m, n2, n1, 1)}

PairAbout(m, n1, n2) == About({tv(m, n1), tv(m, n2)} \cup PairVars(m, n1, n2))

PairSat(cs, m, n1, n2, x, y) ==
    ExistsBin(cs, (tv(m, n1) :> x) @@ (tv(m, n2) :> y), PairVars(m, n1, n2))

C4_MachineExclusion ==
    NBBuilt =>
        \A m \in {2, 4, 5} : \A n1 \in Wagons, n2 \in Wagons :
            n1 < n2 =>
                LET cs == PairAbout(m, n1, n2)
                IN \A x \in ExclDom, y \in ExclDom :
                      (x < y + T[m] /\ y < x + T[m]) => ~PairSat(cs, m, n1, n2, x, y)

\* a built model where the two wagons of a pair can use the machine one
\* right after the other, in either order, but not at the same time
C4_Witness ==
    /\ NBBuilt
    /\ \A m \in {2, 4, 5} :
          LET cs == PairAbout(m, 0, N - 1)
          IN /\ PairSat(cs, m, 0, N - 1, 0, T[m])
             /\ PairSat(cs, m, 0, N - 1, T[m], 0)
             /\ ~PairSat(cs, m, 0, N - 1, Step, 0)

(***************************************************************************)
(* C5: once the notebook model is built, for every task m in {2,3,4,5} of  *)
(* every wagon, every assignment that satisfies the constraints places the *)
(* whole interval [t, t + T[m]] inside exactly one opening of the          *)
(* calendar: it overlaps none of the closures Mon 5h-13h, Sat 13h-21h,     *)
(* Sun 13h-21h, next Mon 5h-13h.                                           *)
(***************************************************************************)
Hour(day, h) == (day * 24 + h) * 60

Closures ==
    {<<Hour(0, 5), Hour(0, 13)>>, <<Hour(5, 13), Hour(5, 21)>>,
     <<Hour(6, 13), Hour(6, 21)>>, <<Hour(7, 5), Hour(7, 13)>>}

Openings ==
    {<<0, Hour(0, 5)>>, <<Hour(0, 13), Hour(5, 13)>>, <<Hour(5, 21), Hour(6, 13)>>,
     <<Hour(6, 21), Hour(7, 5)>>, <<Hour(7, 13), MaxCalTime + 150>>}

InOneOpening(x, dur) ==
    /\ Cardinality({o \in Openings : o[1] <= x /\ x + dur <= o[2]}) = 1
    /\ \A w \in Closures : ~(x < w[2] /\ w[1] < x + dur)

CalVars(m, n) == {d2(m, n, i) : i \in 0 .. 10}

CalAbout(m, n) == About({tv(m, n)} \cup CalVars(m, n))

CalSat(cs, m, n, x) == ExistsBin(cs, (tv(m, n) :> x), CalVars(m, n))

C5_CalendarMembership ==
    NBBuilt =>
        \A m \in {2, 3, 4, 5}, n \in Wagons :
            LET cs == CalAbout(m, n)
            IN \A x \in CalDom : ~InOneOpening(x, T[m]) => ~CalSat(cs, m, n, x)

\* a built model where a calendar task can end exactly when a closure
\* begins and start exactly when it ends, but not one grid step inside
C5_Witness ==
    /\ NBBuilt
    /\ \A m \in {2, 3, 4, 5} : \A w \in Closures :
          LET cs == CalAbout(m, N - 1)
          IN /\ CalSat(cs, m, N - 1, w[1] - T[m])
             /\ CalSat(cs, m, N - 1, w[2])
             /\ ~CalSat(cs, m, N - 1, w[1] - T[m] + CalStep)
             /\ ~CalSat(cs, m, N - 1, w[2] - CalStep)

(***************************************************************************)
(* README formalisation: data and decision variables                       *)
(***************************************************************************)
Arr == 1 .. NumArr
Dep == 1 .. NumDep
Slots == 0 .. MaxSlot
Quarters == 0 .. MaxQuarter     \* values tried for a start time t_x[n,m]

M_big == 1000
Eps == 1

ta(n, m) == <<"t_a", n, m>>
td(n, m) == <<"t_d", n, m>>
alb(c, n, t) == <<"alb", c, n, t>>
bub(c, n, t) == <<"bub", c, n, t>>
ip(c, n, t) == <<"ip", c, n, t>>
pw(n) == <<"pw", n>>
max_FOR == <<"max_FOR">>

RMVars ==
    [t_a |-> <<NumArr, 3>>, t_d |-> <<NumDep, 4>>,
     ip |-> <<3, MaxSlot + 1>>, bub |-> <<3, MaxSlot + 1>>,
     alb |-> <<3, MaxSlot + 1>>, max_FOR |-> << >>, pw |-> <<NumDep>>]

\* the trains that pass through yard c
TrainsOf(c) == IF c = "REC" THEN Arr ELSE Dep

\* the input data: D[n], t_a[n], t_d[n], T_a[m], T_d[m], L_v[c].  An arrival
\* train has three tasks and a departure train four; T_a[4], which the
\* precedence constraint mentions, is part of the data
Correspondences ==
    {[n \in Dep |-> {}], [n \in Dep |-> Arr], [n \in Dep |-> {1}],
     [n \in Dep |-> {n} \cap Arr], [n \in Dep |-> IF n = 1 THEN {} ELSE Arr]}

Instances ==
    [D   : Correspondences,
     ta  : {[n \in Arr |-> 60 * (n - 1)]},
     td  : {[n \in Dep |-> 110 + 15 * (n - 1)]},
     T_a : {<<15, 15, 15, d>> : d \in {15, 30}},
     T_d : {<<15, 15, 15, 20>>},
     L_v : {[c \in {"REC", "FOR", "DEP"} |-> IF c = "FOR" THEN 2 ELSE 1]}]

(***************************************************************************)
(* README: ordering, release, due, precedence between connected trains     *)
(***************************************************************************)
RMOrderA(n, m) ==
    Lin((ta(n, m) :> 15) @@ (ta(n, m + 1) :> -15), "<=", 0 - inst.T_a[m])

RMOrderD(n, m) ==
    Lin((td(n, m) :> 15) @@ (td(n, m + 1) :> -15), "<=", 0 - inst.T_d[m])

RMRelease(n) == Lin((ta(n, 1) :> 15), ">=", inst.ta[n])

RMDue(n) == Lin((td(n, 4) :> 15), "<=", inst.td[n] - inst.T_d[4])

\* 15 t_d[n,1] >= 15 t_a[n',4] + T_a[4]   for n' in D[n]
RMPreced(n, na) ==
    Lin((td(n, 1) :> 15) @@ (ta(na, 4) :> -15), ">=", inst.T_a[4])

(***************************************************************************)
(* README: occupancy indicators.  An event is 15 * v + c for a start time  *)
(* variable v, or the constant c when v is NoVar.                          *)
(***************************************************************************)
Event(v, c) == [v |-> v, c |-> c]

EvTerms(e, b, coef) ==
    IF e.v = NoVar THEN (b :> coef) ELSE (e.v :> -15) @@ (b :> coef)

\* 15 t >= entry - M_big (1 - alb)
OccIn1(c, n, t, entry) ==
    Lin(EvTerms(entry, alb(c, n, t), 0 - M_big), ">=", entry.c - M_big - 15 * t)

\* 15 t <= entry - eps + M_big alb
OccIn2(c, n, t, entry) ==
    Lin(EvTerms(entry, alb(c, n, t), 0 - M_big), "<=", entry.c - Eps - 15 * t)

\* 15 t <= exit + M_big (1 - bub)
OccOut1(c, n, t, exit) ==
    Lin(EvTerms(exit, bub(c, n, t), M_big), "<=", exit.c + M_big - 15 * t)

\* OccOut2 with epsilon forgotten
M_OccOut2(c, n, t, exit) ==
    Lin(EvTerms(exit, bub(c, n, t), M_big), ">=", exit.c - 15 * t)

\* 15 t >= exit + eps - M_big bub
OccOut2(c, n, t, exit) ==
    Lin(EvTerms(exit, bub(c, n, t), M_big), ">=", exit.c + Eps - 15 * t)

OccBlock(c, n, t, entry, exit) ==
    {OccIn1(c, n, t, entry), OccIn2(c, n, t, entry),
     OccOut1(c, n, t, exit), OccOut2(c, n, t, exit)}

\* reception yard: from the arrival of the train to the end of task 3
RECEntry(n) == Event(NoVar, inst.ta[n])
RECExit(n) == Event(ta(n, 3), inst.T_a[3])

\* formation yard: from the start of task 1 to the end of task 3
FOREntry(n) == Event(td(n, 1), 0)
FORExit(n) == Event(td(n, 3), inst.T_d[3])

\* DEPEntry with epsilon forgotten
M_DEPEntry(n) == Event(td(n, 3), inst.T_d[3])

\* departure yard: from just after the end of task 3 to the departure
DEPEntry(n) == Event(td(n, 3), inst.T_d[3] + Eps)
DEPExit(n) == Event(NoVar, inst.td[n])

EntryOf(c, n) ==
    CASE c = "REC" -> RECEntry(n) [] c = "FOR" -> FOREntry(n) [] c = "DEP" -> DEPEntry(n)

ExitOf(c, n) ==
    CASE c = "REC" -> RECExit(n) [] c = "FOR" -> FORExit(n) [] c = "DEP" -> DEPExit(n)

RMOccYard(c) ==
    UNION {OccBlock(c, n, t, EntryOf(c, n), ExitOf(c, n)) : n \in TrainsOf(c), t \in Slots}

\* ip = bub AND alb
RMIp(c, n, t) == Prod(ip(c, n, t), (bub(c, n, t) :> 1) @@ (alb(c, n, t) :> 1))

\* RMCapacity with one track too many
M_RMCapacity(c, t) ==
    Lin([v \in {ip(c, n, t) : n \in TrainsOf(c)} |-> 1], "<=", inst.L_v[c] + 1)

\* sum over n of ip[c,n,t] <= L_v(c)
RMCapacity(c, t) == Lin([v \in {ip(c, n, t) : n \in TrainsOf(c)} |-> 1], "<=", inst.L_v[c])

\* RMPeak summing the reception yard instead of the formation yard
M_RMPeak(t) ==
    Lin([v \in {ip("REC", n, t) : n \in Arr} |-> 1] @@ (max_FOR :> -1), "<=", 0)

\* sum over n of ip[FOR,n,t] <= max_FOR
RMPeak(t) ==
    Lin([v \in {ip("FOR", n, t) : n \in Dep} |-> 1] @@ (max_FOR :> -1), "<=", 0)

\* pw[n] = min over n' in D[n] of 15 t_a[n',3]
RMPw(n) == MinOf(pw(n), [v \in {ta(na, 3) : na \in inst.D[n]} |-> 15])

(***************************************************************************)
(* README: the families of constraints, posted one after the other         *)
(***************************************************************************)
Yards == {"REC", "FOR", "DEP"}

\* a precedence for every arrival train, connected or not
M_RMPrecedFamily == {RMPreced(n, na) : n \in Dep, na \in Arr}

\* for every departure train n and every n' in D[n]
RMPrecedFamily == UNION {{RMPreced(n, na) : na \in inst.D[n]} : n \in Dep}

RMFamily(f) ==
    CASE f = "order"    -> {RMOrderA(n, m) : n \in Arr, m \in 1 .. 2}
                               \cup {RMOrderD(n, m) : n \in Dep, m \in 1 .. 3}
      [] f = "release"  -> {RMRelease(n) : n \in Arr}
      [] f = "due"      -> {RMDue(n) : n \in Dep}
      [] f = "preced"   -> RMPrecedFamily
      [] f = "occREC"   -> RMOccYard("REC")
      [] f = "occFOR"   -> RMOccYard("FOR")
      [] f = "occDEP"   -> RMOccYard("DEP")
      [] f = "ip"       -> UNION {{RMIp(c, n, t) : n \in TrainsOf(c), t \in Slots} : c \in Yards}
      [] f = "capacity" -> {RMCapacity(c, t) : c \in Yards, t \in Slots}
      [] f = "peak"     -> {RMPeak(t) : t \in Slots}
      [] f = "pw"       -> {RMPw(n) : n \in Dep}

RMFamilies ==
    <<"order", "release", "due", "preced", "occREC", "occFOR", "occDEP",
      "ip", "capacity", "peak", "pw">>

RMInit ==
    /\ pc = "rm_vars"
    /\ mvars = << >>
    /\ t_a = None
    /\ t_d = None
    /\ constrs = {}
    /\ it = 0
    /\ inst \in Instances
    /\ cal = None
    /\ cor = None
    /\ ma = None

RMDeclare ==
    /\ pc = "rm_vars"
    /\ mvars' = RMVars
    /\ pc' = "rm_post"
    /\ it' = 1
    /\ UNCHANGED <<t_a, t_d, constrs, inst, cal, cor, ma>>

RMPost ==
    /\ pc = "rm_post"
    /\ constrs' = constrs \cup RMFamily(RMFamilies[it])
    /\ pc' = IF it = Len(RMFamilies) THEN "rm_done" ELSE "rm_post"
    /\ it' = IF it = Len(RMFamilies) THEN 0 ELSE it + 1
    /\ UNCHANGED <<mvars, t_a, t_d, inst, cal, cor, ma>>

RMNext == RMDeclare \/ RMPost

SpecRM == RMInit /\ [][RMNext]_vars

RMBuilt == pc = "rm_done" /\ mvars = RMVars

(***************************************************************************)
(* C3: for every departure train d and every arrival train a of D[d],      *)
(* every assignment that satisfies the model starts the first task of d at *)
(* or after the end of the last task of a, the last task being task 3, the *)
(* final task of the arrival train's own sequence.                         *)
(***************************************************************************)
ArrTimes(a) == {ta(a, m) : m \in 1 .. 4}

C3_PrecedenceLastTask ==
    RMBuilt =>
        \A d \in Dep : \A a \in inst.D[d] :
            LET V == ArrTimes(a) \cup {td(d, 1)}
                cs == About(V)
            IN \A val \in [V -> Quarters] :
                  Sat(cs, val) =>
                      15 * val[td(d, 1)] >= 15 * val[ta(a, 3)] + inst.T_a[3]

(***************************************************************************)
(* Occupancy: the slice of one yard, one train and one slot                *)
(***************************************************************************)
OccVars(c, n, t) == {alb(c, n, t), bub(c, n, t), ip(c, n, t)}

EvVars(e) == IF e.v = NoVar THEN {} ELSE {e.v}

\* the minute at which the event happens under val
EvTime(e, val) == IF e.v = NoVar THEN e.c ELSE 15 * val[e.v] + e.c

OccTimeVars(c, n) == EvVars(EntryOf(c, n)) \cup EvVars(ExitOf(c, n))

OccAbout(c, n, t) == About(OccTimeVars(c, n) \cup OccVars(c, n, t))

PwTimes == {15 * q : q \in Quarters}

C7_FormationFromPw ==
    RMBuilt =>
        \A n \in Dep : inst.D[n] # {} =>
            \A t \in Slots :
                LET tvars == {ta(na, 3) : na \in inst.D[n]} \cup {td(n, 1), td(n, 3)}
                    bvars == OccVars("FOR", n, t)
                    cs == About(tvars \cup bvars \cup {pw(n)})
                IN \A tvl \in [tvars -> Quarters], bv \in [bvars -> {0, 1}],
                      p \in PwTimes :
                        Sat(cs, tvl @@ bv @@ (pw(n) :> p)) =>
                            ((bv[ip("FOR", n, t)] = 1) <=>
                                (p <= 15 * t
                                    /\ 15 * t <= 15 * tvl[td(n, 3)] + inst.T_d[3]))

(***************************************************************************)
(* C8: for every yard c and every slot t, every assignment that satisfies  *)
(* the model has at most L_v[c] trains n with ip[c,n,t] = 1.               *)
(***************************************************************************)
IpOf(c, t) == {ip(c, n, t) : n \in TrainsOf(c)}

Count(f) == Cardinality({v \in DOMAIN f : f[v] = 1})

C8_Capacity ==
    RMBuilt =>
        \A c \in Yards, t \in Slots :
            LET cs == About(IpOf(c, t))
            IN \A f \in [IpOf(c, t) -> {0, 1}] :
                  Sat(cs, f) => Count(f) <= inst.L_v[c]

\* a built model with a yard that has fewer tracks than trains: filling
\* every track is accepted, one train more is not
C8_Witness ==
    /\ RMBuilt
    /\ \E c \in Yards, t \in Slots :
          /\ Cardinality(TrainsOf(c)) > inst.L_v[c]
          /\ \E f \in [IpOf(c, t) -> {0, 1}] :
                Count(f) = inst.L_v[c] /\ Sat(About(IpOf(c, t)), f)
          /\ ~Sat(About(IpOf(c, t)), [v \in IpOf(c, t) |-> 1])

(***************************************************************************)
(* C9: in every assignment that satisfies the model, the number of trains  *)
(* counted in the formation yard at a slot is at most max_FOR, for every   *)
(* slot; and when max_FOR is minimal (no smaller value satisfies the       *)
(* constraints that mention it, the occupancy being the same) it equals    *)
(* the maximum over the slots of that number.  max_FOR is mentioned by no  *)
(* constraint outside the ones examined, so an optimal assignment has a    *)
(* minimal max_FOR.                                                        *)
(***************************************************************************)
FORIp == {ip("FOR", n, t) : n \in Dep, t \in Slots}

PeakDom == 0 .. (NumDep + 1)

OccAt(f, t) == Cardinality({n \in Dep : f[ip("FOR", n, t)] = 1})

MaxOcc(f) ==
    CHOOSE k \in 0 .. NumDep :
        /\ \E t \in Slots : OccAt(f, t) = k
        /\ \A t \in Slots : OccAt(f, t) <= k

PeakAbout == About(FORIp \cup {max_FOR})

PeakSat(cs, f, p) == Sat(cs, f @@ (max_FOR :> p))

C9_Peak ==
    RMBuilt =>
        LET cs == PeakAbout
        IN /\ {c \in constrs : max_FOR \in VarsOf(c)} \subseteq cs
           /\ \A f \in [FORIp -> {0, 1}], p \in PeakDom :
                 PeakSat(cs, f, p) =>
                     /\ \A t \in Slots : OccAt(f, t) <= p
                     /\ (\A q \in PeakDom : q < p => ~PeakSat(cs, f, q)) => p = MaxOcc(f)

\* a built model in which two trains counted at the same slot are accepted
\* with a peak of two and a peak of three, and refused with a peak of one
C9_Witness ==
    /\ RMBuilt
    /\ \E t \in Slots :
          LET f == [v \in FORIp |-> IF v[4] = t /\ v[3] \in {1, 2} THEN 1 ELSE 0]
              cs == PeakAbout
          IN /\ PeakSat(cs, f, 2)
             /\ PeakSat(cs, f, 3)
             /\ ~PeakSat(cs, f, 1)
             /\ MaxOcc(f) = 2

(***************************************************************************)
(* utils1: the calendar functions.  An unavailability string is read as    *)
(* the sequence of the matches of                                          *)
(*   \((\d+),\s*(\d{1,2}):(\d{2})-(\d{1,2}):(\d{2})\)                      *)
(* each match being the five integers of its groups.                       *)
(***************************************************************************)
Week == 10080
Day == 1440

Match(jour, debut_h, debut_m, fin_h, fin_m) ==
    [jour |-> jour, debut_h |-> debut_h, debut_m |-> debut_m,
     fin_h |-> fin_h, fin_m |-> fin_m]

debut_minutes(w) == (w.jour - 1) * Day + w.debut_h * 60 + w.debut_m

fin_minutes(w) == (w.jour - 1) * Day + w.fin_h * 60 + w.fin_m

plages_originales(indisponibilites) ==
    [i \in 1 .. Len(indisponibilites) |->
        <<debut_minutes(indisponibilites[i]), fin_minutes(indisponibilites[i])>>]

nouvelles_plages(plages, semaine) ==
    [i \in 1 .. Len(plages) |->
        <<plages[i][1] + semaine * Week, plages[i][2] + semaine * Week>>]

\* the loop "while True": one more week until the end of the last window of
\* the week is past the last departure
RECURSIVE plages_etendues(_, _, _)
plages_etendues(plages, semaine, dernier) ==
    LET nouvelles == nouvelles_plages(plages, semaine)
    IN IF nouvelles[Len(nouvelles)][2] > dernier
       THEN nouvelles
       ELSE nouvelles \o plages_etendues(plages, semaine + 1, dernier)

convertir_en_minutes(indisponibilites, dernier) ==
    IF plages_originales(indisponibilites) = << >>
    THEN << >>
    ELSE plages_etendues(plages_originales(indisponibilites), 0, dernier)

\* list(chain(*x)): the tuples laid end to end
RECURSIVE chain(_)
chain(plages) ==
    IF plages = << >> THEN << >> ELSE Head(plages) \o chain(Tail(plages))

\* SansDoublons keeping one of two equal neighbours
RECURSIVE M_SansDoublons(_, _)
M_SansDoublons(elmt, i) ==
    IF i > Len(elmt) THEN << >>
    ELSE IF i < Len(elmt) /\ elmt[i] = elmt[i + 1]
         THEN M_SansDoublons(elmt, i + 1)
         ELSE <<elmt[i]>> \o M_SansDoublons(elmt, i + 1)

\* the inner loop of traitement_doublons, from index i (counted from 1)
RECURSIVE SansDoublons(_, _)
SansDoublons(elmt, i) ==
    IF i > Len(elmt) THEN << >>
    ELSE IF i < Len(elmt) /\ elmt[i] = elmt[i + 1]
         THEN SansDoublons(elmt, i + 2)
         ELSE <<elmt[i]>> \o SansDoublons(elmt, i + 1)

traitement_doublons(liste) == [k \in 1 .. Len(liste) |-> SansDoublons(liste[k], 1)]

Limites_machines(rows, dernier) ==
    traitement_doublons(
        [k \in 1 .. Len(rows) |-> chain(convertir_en_minutes(rows[k], dernier))])

creation_limites_machines(rows, dernier) ==
    LET L == Limites_machines(rows, dernier)
    IN [DEB |-> L[1], FOR |-> L[2], DEG |-> L[3]]

creation_limites_chantiers(rows, dernier) ==
    LET L == Limites_machines(rows, dernier)
    IN [REC |-> L[1], FOR |-> L[2], DEP |-> L[3]]

(***************************************************************************)
(* The inputs tried: the unavailability column of the three rows of the    *)
(* sheet and the minute of the last departure                              *)
(***************************************************************************)
CalJours == {1, 2}
CalHeures == {5, 13, 21}

Matches == {Match(j, dh, 0, fh, 0) : j \in CalJours, dh \in CalHeures, fh \in CalHeures}

Indisponibilites == UNION {[1 .. k -> Matches] : k \in 0 .. MaxWindows}

\* Monday 5h-13h, Saturday 13h-21h, Sunday 13h-21h
Fermetures == <<Match(1, 5, 0, 13, 0), Match(6, 13, 0, 21, 0), Match(7, 13, 0, 21, 0)>>

DerniersDeparts == {1000, Week + 1000}

CalInit ==
    /\ pc = "cal_read"
    /\ mvars = << >>
    /\ t_a = None
    /\ t_d = None
    /\ constrs = {}
    /\ it = 0
    /\ inst = None
    /\ cor = None
    /\ ma = None
    /\ \E r \in Indisponibilites, h \in DerniersDeparts :
          cal = [rows |-> <<r, Fermetures, << >> >>, dernier |-> h, limites |-> None]

CalMachines ==
    /\ pc = "cal_read"
    /\ cal' = [cal EXCEPT !.limites = creation_limites_machines(cal.rows, cal.dernier)]
    /\ pc' = "cal_machines"
    /\ UNCHANGED <<mvars, t_a, t_d, constrs, it, inst, cor, ma>>

CalChantiers ==
    /\ pc = "cal_read"
    /\ cal' = [cal EXCEPT !.limites = creation_limites_chantiers(cal.rows, cal.dernier)]
    /\ pc' = "cal_chantiers"
    /\ UNCHANGED <<mvars, t_a, t_d, constrs, it, inst, cor, ma>>

CalNext == CalMachines \/ CalChantiers

SpecCal == CalInit /\ [][CalNext]_vars

CalBuilt == pc \in {"cal_machines", "cal_chantiers"}

\* the row of the sheet a resource is read from
RowOf(res) ==
    CASE res \in {"DEB", "REC"} -> 1 [] res = "FOR" -> 2 [] res \in {"DEG", "DEP"} -> 3

(***************************************************************************)
(* Reading a list of limits as a calendar: the closures are                *)
(* [L[1], L[2]], [L[3], L[4]], ... and the available intervals are what is *)
(* before the first limit, between an even limit and the next odd one, and *)
(* after the last limit.                                                   *)
(***************************************************************************)
StrictlyIncreasing(L) == \A i \in 1 .. (Len(L) - 1) : L[i] < L[i + 1]

Available(L, x) ==
    \/ Len(L) = 0
    \/ x <= L[1]
    \/ x >= L[Len(L)]
    \/ \E j \in 1 .. (Len(L) \div 2) : 2 * j + 1 <= Len(L) /\ L[2 * j] <= x /\ x <= L[2 * j + 1]

\* x is inside a weekly replica of a window of the row
Closed(row, x) ==
    \E i \in 1 .. Len(row), k \in 0 .. (x \div Week) :
        /\ debut_minutes(row[i]) + k * Week <= x
        /\ x <= fin_minutes(row[i]) + k * Week

\* instants strictly between the hours at which a window can begin or end
Probes(dernier) ==
    {x \in {k * Week + (d - 1) * Day + 60 * h :
                k \in 0 .. (dernier \div Week), d \in 1 .. 7, h \in {2, 9, 17, 22}} :
        x <= dernier}

\* every window of the row ends after it begins
EndsAfterStart(row) ==
    \A i \in 1 .. Len(row) : debut_minutes(row[i]) < fin_minutes(row[i])

\* the windows of a row are listed in chronological order: none begins
\* before the previous one has ended, and the last ends no later than one
\* week after the first begins
Chronological(row) ==
    /\ \A i \in 1 .. (Len(row) - 1) : fin_minutes(row[i]) <= debut_minutes(row[i + 1])
    /\ Len(row) > 0 => fin_minutes(row[Len(row)]) <= debut_minutes(row[1]) + Week

CalendarOf(res) ==
    LET L == cal.limites[res]
        row == cal.rows[RowOf(res)]
    IN /\ StrictlyIncreasing(L)
       /\ Len(L) % 2 = 0
       /\ \A x \in Probes(cal.dernier) : Available(L, x) <=> ~Closed(row, x)
       /\ row = << >> => L = << >>

WeeklyWindows ==
    {<<Limites[0], Limites[1]>>, <<Limites[2], Limites[3]>>,
     <<Limites[4], Limites[5]>>}

MaxOf(f) == CHOOSE x \in {f[i] : i \in DOMAIN f} : \A i \in DOMAIN f : f[i] <= x

Horizon == MaxOf(t_d)

Replicas ==
    {r \in {<<w[1] + k * S, w[2] + k * S>> : w \in WeeklyWindows, k \in 0 .. MaxWeeks} :
        r[1] <= Horizon}

\* the starts on the calendar grid of a task of duration dur overlapping r
Overlapping(r, dur) ==
    {x \in (r[1] - dur + 1) .. (r[2] - 1) : x % CalStep = 0}

C11_WeeklyReplicas ==
    (NBBuilt /\ t_d # None) =>
        \A m \in {2, 3, 4, 5}, n \in Wagons :
            LET cs == CalAbout(m, n)
            IN \A r \in Replicas : \A x \in Overlapping(r, T[m]) :
                  ~CalSat(cs, m, n, x)

(***************************************************************************)
(* utils1.init_dict_correspondance: the dictionary of the correspondences  *)
(*                                                                         *)
(*   input_df = df_correspondance.astype(str)                              *)
(*   input_df[id arrival]   = number + "_" + day of the arrival date       *)
(*   input_df[id departure] = number + "_" + day of the departure date     *)
(*   d = {}                                                                *)
(*   for departure_train_id in input_df[id departure]:                     *)
(*       d[departure_train_id] = []                                        *)
(*   for arrival_train_id, departure_train_id in zip(ids arr, ids dep):    *)
(*       d[departure_train_id].append(arrival_train_id)                    *)
(*   return d                                                              *)
(*                                                                         *)
(* A row of the table is <<arrival number, arrival date, departure number, *)
(* departure date>>, a date being <<day, month>>.  The function reads      *)
(* nothing but the table: the trains that have a record (the keys of t_a   *)
(* and t_d built by init_t_a and init_t_d) are kept in the state only to   *)
(* state properties about them.                                            *)
(***************************************************************************)
TrainNumbers == {1, 2}
ArrivalDates == {<<1, 5>>, <<2, 5>>}
DepartureDates == {<<3, 5>>}

\* str(number) + "_" + date.strftime("%d")
train_id(number, date) == <<number, date[1]>>

ArrivalIds == {train_id(n, dt) : n \in TrainNumbers, dt \in ArrivalDates}
DepartureIds == {train_id(n, dt) : n \in TrainNumbers, dt \in DepartureDates}

CorRows == TrainNumbers \X ArrivalDates \X TrainNumbers \X DepartureDates

CorTables == UNION {[1 .. k -> CorRows] : k \in 0 .. MaxRows}

\* the trains of the timetable sheets: all of them, or all but train 2
CorRecords ==
    {[arrivals |-> {i \in ArrivalIds : i[1] \in ns},
      departures |-> {i \in DepartureIds : i[1] \in ns}] :
        ns \in {TrainNumbers, TrainNumbers \ {2}}}

\* d[departure_train_id] = []
EmptyList(dict, departure_train_id) ==
    [k \in DOMAIN dict \cup {departure_train_id} |->
        IF k = departure_train_id THEN << >> ELSE dict[k]]

\* AppendTo that skips an identifier already in the list
M_AppendTo(dict, departure_train_id, arrival_train_id) ==
    IF \E i \in DOMAIN dict[departure_train_id] :
            dict[departure_train_id][i] = arrival_train_id
    THEN dict
    ELSE [dict EXCEPT ![departure_train_id] = Append(@, arrival_train_id)]

\* d[departure_train_id].append(arrival_train_id)
AppendTo(dict, departure_train_id, arrival_train_id) ==
    [dict EXCEPT ![departure_train_id] = Append(@, arrival_train_id)]

CorInit ==
    /\ pc = "cor_read"
    /\ mvars = << >>
    /\ t_a = None
    /\ t_d = None
    /\ constrs = {}
    /\ it = 0
    /\ inst = None
    /\ cal = None
    /\ ma = None
    /\ \E tbl \in CorTables, rec \in CorRecords :
          cor = [df_correspondance |-> tbl, records |-> rec,
                 input_df |-> << >>, d |-> << >>]

\* the two identifier columns of input_df
CorIds ==
    /\ pc = "cor_read"
    /\ cor' = [cor EXCEPT !.input_df =
                  [i \in 1 .. Len(cor.df_correspondance) |->
                      LET r == cor.df_correspondance[i]
                      IN [arrival |-> train_id(r[1], r[2]),
                          departure |-> train_id(r[3], r[4])]]]
    /\ pc' = "cor_keys"
    /\ it' = 1
    /\ UNCHANGED <<mvars, t_a, t_d, constrs, inst, cal, ma>>

\* one iteration of the first loop, or its end
CorKeys ==
    /\ pc = "cor_keys"
    /\ IF it > Len(cor.input_df)
       THEN /\ pc' = "cor_append"
            /\ it' = 1
            /\ UNCHANGED cor
       ELSE /\ cor' = [cor EXCEPT !.d = EmptyList(@, cor.input_df[it].departure)]
            /\ it' = it + 1
            /\ UNCHANGED pc
    /\ UNCHANGED <<mvars, t_a, t_d, constrs, inst, cal, ma>>

\* one iteration of the second loop, or "return d"
CorAppend ==
    /\ pc = "cor_append"
    /\ IF it > Len(cor.input_df)
       THEN /\ pc' = "cor_done"
            /\ it' = 0
            /\ UNCHANGED cor
       ELSE /\ cor' = [cor EXCEPT !.d = AppendTo(@, cor.input_df[it].departure,
                                                 cor.input_df[it].arrival)]
            /\ it' = it + 1
            /\ UNCHANGED pc
    /\ UNCHANGED <<mvars, t_a, t_d, constrs, inst, cal, ma>>

CorNext == CorIds \/ CorKeys \/ CorAppend

SpecCor == CorInit /\ [][CorNext]_vars

CorDone == pc = "cor_done"

\* d[n] as the callers read it: a missing key raises KeyError
Lookup(dict, n) == IF n \in DOMAIN dict THEN dict[n] ELSE <<"KeyError">>

\* the arrival identifiers of the rows of the table whose departure is n,
\* in the order of the rows
RECURSIVE PairedWith(_, _)
PairedWith(rows, n) ==
    IF rows = << >> THEN << >>
    ELSE LET r == Head(rows)
             rest == PairedWith(Tail(rows), n)
         IN IF train_id(r[3], r[4]) = n
            THEN <<train_id(r[1], r[2])>> \o rest
            ELSE rest

\* a list without its repetitions, first occurrences kept
RECURSIVE Distinct(_)
Distinct(L) ==
    IF L = << >> THEN << >>
    ELSE LET init == Distinct(SubSeq(L, 1, Len(L) - 1))
             x == L[Len(L)]
         IN IF \E i \in DOMAIN init : init[i] = x THEN init ELSE Append(init, x)

(***************************************************************************)
(* C12 as stated: when init_dict_correspondance has returned, every        *)
(* departure train maps to the arrival trains paired with it in the table, *)
(* without repetition and in the order of their first rows; a departure    *)
(* train that is in no row maps to the empty list.                         *)
(***************************************************************************)
C12_OrderedSets ==
    CorDone =>
        \A n \in DepartureIds :
            Lookup(cor.d, n) = Distinct(PairedWith(cor.df_correspondance, n))

(***************************************************************************)
(* C12 as the code has it: when init_dict_correspondance has returned, the *)
(* keys of d are exactly the departure trains that are in a row of the     *)
(* table, and each maps to the arrival trains of its rows, one entry per   *)
(* row, in the order of the rows (repetitions kept).                       *)
(***************************************************************************)
C12_ListsOfRows ==
    CorDone =>
        /\ DOMAIN cor.d =
              {n \in DepartureIds : PairedWith(cor.df_correspondance, n) # << >>}
        /\ \A n \in DOMAIN cor.d :
              cor.d[n] = PairedWith(cor.df_correspondance, n)

\* a returned dictionary with a repeated pair kept twice, a second arrival
\* train after it, and a departure train that has no key
C12_Witness ==
    /\ CorDone
    /\ \E n \in DOMAIN cor.d :
          /\ Len(cor.d[n]) = 3
          /\ cor.d[n][1] = cor.d[n][2]
          /\ cor.d[n][3] # cor.d[n][1]
    /\ \E n \in DepartureIds : n \notin DOMAIN cor.d

(***************************************************************************)
(* C13: once the README model is built, for every departure train n with   *)
(* D[n] empty, no constraint mentions both a start time of n and a start   *)
(* time of an arrival train, and every assignment of the four start times  *)
(* of n that satisfies the ordering and due constraints of n satisfies     *)
(* every constraint over them and the start times of the last tasks of an  *)
(* arrival train, whatever these are.                                      *)
(***************************************************************************)
DepTimes(n) == {td(n, m) : m \in 1 .. 4}

LastTimes(na) == {ta(na, 3), ta(na, 4)}

C13_NoEntryNoPrecedence ==
    RMBuilt =>
        \A n \in Dep : inst.D[n] = {} =>
            /\ \A c \in constrs :
                  VarsOf(c) \cap DepTimes(n) # {} =>
                      VarsOf(c) \cap {ta(na, m) : na \in Arr, m \in 1 .. 4} = {}
            /\ LET own == About(DepTimes(n))
               IN \A x \in {f \in [DepTimes(n) -> Quarters] : Sat(own, f)} :
                     \A na \in Arr :
                        LET cross == About(DepTimes(n) \cup LastTimes(na))
                                        \ About(LastTimes(na))
                        IN \A y \in [LastTimes(na) -> Quarters] : Sat(cross, x @@ y)

\* a built model where departure train 1 has no correspondence and starts
\* at 0 while the last task of an arrival train starts at MaxQuarter, which
\* the constraints refuse for a departure train that has correspondences
C13_Witness ==
    /\ RMBuilt
    /\ inst.D[1] = {}
    /\ \E n \in Dep, na \in Arr :
          LET starts(k) == [v \in DepTimes(k) |-> v[3] - 1]
              late == [v \in LastTimes(na) |-> MaxQuarter]
          IN /\ na \in inst.D[n]
             /\ Sat(About(DepTimes(1)), starts(1))
             /\ Sat(About(DepTimes(1) \cup LastTimes(na)), starts(1) @@ late)
             /\ Sat(About(DepTimes(n)), starts(n))
             /\ ~Sat(About(DepTimes(n) \cup LastTimes(na)), starts(n) @@ late)

(***************************************************************************)
(* C14: a run of the notebook on missing release or due data (t_a or t_d   *)
(* is None) ends in the error state, which is reached before any variable  *)
(* has been created and any constraint posted; and a run that completes    *)
(* has posted every constraint of cells 4, 6 and 8.                        *)
(***************************************************************************)
NBAllConstrs ==
    UNION {{ReleaseConstr(n), DueConstr(n)} \cup Cell4Order(n) : n \in Wagons}
      \cup UNION {Cell6Body(Cell6Iters[i][1], Cell6Iters[i][2], Cell6Iters[i][3]) :
                     i \in DOMAIN Cell6Iters}
      \cup UNION {Cell8Body(Cell8Iters[i][1], Cell8Iters[i][2]) :
                     i \in DOMAIN Cell8Iters}

C14_FailFast ==
    /\ pc = "error" => mvars = << >> /\ constrs = {}
    /\ pc \in {"cell6", "cell8", "done"} => t_a # None /\ t_d # None
    /\ pc = "done" => constrs = NBAllConstrs

(***************************************************************************)
(* C15: whenever a row of the sheet has an unavailability window whose end *)
(* is not after its start, creation_limites_machines and                   *)
(* creation_limites_chantiers produce no list of limits (they fail).       *)
(***************************************************************************)
C15_InvertedWindowFails ==
    (\E k \in DOMAIN cal.rows : \E i \in DOMAIN cal.rows[k] :
        fin_minutes(cal.rows[k][i]) <= debut_minutes(cal.rows[k][i]))
    => ~CalBuilt /\ cal.limites = None

(***************************************************************************)
(* C16: whenever a row of the correspondence table names an arrival or a   *)
(* departure train that has no record in the timetables,                   *)
(* init_dict_correspondance does not return a dictionary (it fails).       *)
(***************************************************************************)
Dangling ==
    \E i \in DOMAIN cor.df_correspondance :
        LET r == cor.df_correspondance[i]
        IN \/ train_id(r[1], r[2]) \notin cor.records.arrivals
           \/ train_id(r[3], r[4]) \notin cor.records.departures

C16_DanglingFails == Dangling => ~CorDone

(***************************************************************************)
(* C17: in every step of a run of the notebook the constraints posted so   *)
(* far are all kept as they are (the registry only grows), the variable    *)
(* arrays, once created, stay the same, and every variable a constraint    *)
(* mentions is the one entry of its array at a key within the shape.       *)
(***************************************************************************)
Declared(reg, v) ==
    /\ v[1] \in DOMAIN reg
    /\ Len(v) = Len(reg[v[1]]) + 1
    /\ \A k \in 1 .. Len(reg[v[1]]) : v[k + 1] \in 0 .. (reg[v[1]][k] - 1)

C17_AppendOnly ==
    [][/\ constrs \subseteq constrs'
       /\ mvars # << >> => mvars' = mvars
       /\ \A c \in constrs' : \A v \in VarsOf(c) : Declared(mvars', v)]_vars

\* cell 8 under way: the constraints of cells 4 and 6 are still in the
\* registry next to those of the first iterations of cell 8
C17_Witness ==
    /\ pc = "cell8"
    /\ it > 1
    /\ mvars = Cell2Vars
    /\ \A n \in Wagons : ReleaseConstr(n) \in constrs /\ DueConstr(n) \in constrs
    /\ \A i \in DOMAIN Cell6Iters :
          Cell6Body(Cell6Iters[i][1], Cell6Iters[i][2], Cell6Iters[i][3]) \subseteq constrs
    /\ Cell8Body(Cell8Iters[1][1], Cell8Iters[1][2]) \subseteq constrs

(***************************************************************************)
(* Construction by separate builders (specification, section 5).  The      *)
(* variables exist (cell 2) and the data are read (cell 3); the builder of *)
(* a wagon posts what the loops of cells 4 and 8 post for that wagon, the  *)
(* builder of a machine what the loops of cell 6 post for that machine,    *)
(* one outer iteration n1 at a time; each builder fills a registry of its  *)
(* own, the builders run in any interleaving, and the registries are       *)
(* merged when all are finished.                                           *)
(***************************************************************************)
Builders ==
    {<<"job", n>> : n \in Wagons}
        \cup {<<"machine", MachineTasks[i]>> : i \in DOMAIN MachineTasks}

\* cell 4 iteration n, and cell 8 iterations (m, n) for every m
JobBlock(n) ==
    {ReleaseConstr(n), DueConstr(n)} \cup Cell4Order(n)
        \cup UNION {Cell8Body(CalendarTasks[i], n) : i \in DOMAIN CalendarTasks}

\* cell 6 iterations (m, n1, n2) for every n2 > n1
MachineBlock(m, n1) == UNION {Cell6Body(m, n1, n2) : n2 \in (n1 + 1) .. (N - 1)}

Blocks(b) ==
    IF b[1] = "job"
    THEN <<JobBlock(b[2])>>
    ELSE [k \in 1 .. (N - 1) |-> MachineBlock(b[2], k - 1)]

ParInit ==
    /\ pc = "par_build"
    /\ mvars = Cell2Vars
    /\ t_a \in TaInputs \ {None}
    /\ t_d \in {d \in TdInputs \ {None} : d[0] < S}
    /\ constrs = {}
    /\ it = 0
    /\ inst = None
    /\ cal = None
    /\ cor = None
    /\ ma = [done |-> [b \in Builders |-> 0], reg |-> [b \in Builders |-> {}]]

\* one builder posts its next block into its own registry
ParStep ==
    /\ pc = "par_build"
    /\ \E b \in Builders :
          /\ ma.done[b] < Len(Blocks(b))
          /\ ma' = [done |-> [ma.done EXCEPT ![b] = @ + 1],
                    reg |-> [ma.reg EXCEPT ![b] = @ \cup Blocks(b)[ma.done[b] + 1]]]
    /\ UNCHANGED <<pc, mvars, t_a, t_d, constrs, it, inst, cal, cor>>

\* the final merge
ParMerge ==
    /\ pc = "par_build"
    /\ \A b \in Builders : ma.done[b] = Len(Blocks(b))
    /\ constrs' = UNION {ma.reg[b] : b \in Builders}
    /\ pc' = "par_merged"
    /\ UNCHANGED <<mvars, t_a, t_d, it, inst, cal, cor, ma>>

ParNext == ParStep \/ ParMerge

SpecPar == ParInit /\ [][ParNext]_vars

\* the builder an indicator variable belongs to: delta_1[m,n1,n2,k] to
\* machine m, delta_2[m,n,i] to wagon n
OwnerOf(v) == IF v[1] = "delta_1" THEN <<"machine", v[2]>> ELSE <<"job", v[3]>>

Statuses == {"optimal", "feasible", "infeasible", "time_limit"}

\* the keys of an array of the given shape
RECURSIVE Keys(_)
Keys(shape) ==
    IF shape = << >> THEN {<< >>}
    ELSE {<<i>> \o k : i \in 0 .. (shape[1] - 1), k \in Keys(Tail(shape))}

\* the identifiers of the variables in the registry
EmittedIds == UNION {{<<name>> \o k : k \in Keys(mvars[name])} : name \in DOMAIN mvars}

\* the tasks of a wagon one after the other from minute b
RECURSIVE StartOf(_, _)
StartOf(m, b) == IF m = 0 THEN b ELSE StartOf(m - 1, b) + T[m - 1]

\* the wagons one after the other, 300 minutes apart, from minute b
Schedule(b) == [v \in {tv(m, n) : m \in Tasks, n \in Wagons} |-> StartOf(v[2], b + 300 * v[3])]

Schedules == {Schedule(Limites[1] + 60 * k) : k \in 0 .. 1}

InSeq(x, sq) == \E i \in DOMAIN sq : sq[i] = x

\* the value the indicators must have under the start times x
Indicator(v, x) ==
    IF v[1] = "delta_1"
    THEN LET m == v[2]
             diff == x[tv(m, v[4])] - x[tv(m, v[3])]
         IN IF ~(InSeq(m, MachineTasks) /\ v[3] < v[4]) THEN 0
            ELSE IF v[5] = 0 THEN (IF diff <= 0 - T[m] THEN 1 ELSE 0)
            ELSE (IF diff >= T[m] THEN 1 ELSE 0)
    ELSE LET m == v[2]
             t == x[tv(m, v[3])]
             i == v[4]
             on(j) == IF j % 2 = 0 THEN t <= Limites[j] - T[m] ELSE t >= Limites[j]
         IN IF ~InSeq(m, CalendarTasks) THEN 0
            ELSE IF i <= 7 THEN (IF on(i) THEN 1 ELSE 0)
            ELSE (IF on(2 * i - 15) /\ on(2 * i - 14) THEN 1 ELSE 0)

\* Solution giving a value only to the variables some constraint mentions
M_Solution(x) ==
    [v \in UNION {VarsOf(c) : c \in constrs} |->
        IF v[1] = "t" THEN x[v] ELSE Indicator(v, x)]

\* the solution read back from the solver: a value per variable of the model
Solution(x) ==
    [v \in EmittedIds |-> IF v[1] = "t" THEN x[v] ELSE Indicator(v, x)]

\* what a solve can return on the model built so far
Outcomes ==
    LET found == {x \in Schedules : Sat(constrs, Solution(x))}
    IN {[status |-> st, solution |-> Solution(x)] :
            st \in {"optimal", "feasible"}, x \in found}
         \cup {[status |-> "time_limit", solution |-> None]}
         \cup (IF found = {} THEN {[status |-> "infeasible", solution |-> None]}
               ELSE {})

MASolve ==
    /\ pc = "done"
    /\ ma' \in Outcomes
    /\ pc' = "solved"
    /\ UNCHANGED <<mvars, t_a, t_d, constrs, it, inst, cal, cor>>

MANext == NBNext \/ MASolve

SpecMA == NBInit /\ [][MANext]_vars

\* value_of(variable_id): the value read back, or a missing key
value_of(id) ==
    IF id \in DOMAIN ma.solution
    THEN [found |-> TRUE, value |-> ma.solution[id]]
    ELSE [found |-> FALSE, value |-> 0]

C20_QuarterHourStarts ==
    NBBuilt =>
        \A k \in 0 .. 3 :
            LET x == Schedule(Limites[1] + Step * k)
            IN Sat(constrs, Solution(x)) =>
                  \A i \in DOMAIN MachineTasks, n \in Wagons :
                      x[tv(MachineTasks[i], n)] % 15 = 0

(***************************************************************************)
(* C24: once the notebook model is built, for every machine task           *)
(* m in {2,4,5} and every pair of wagons n1 < n2, no assignment that       *)
(* satisfies the constraints has delta_1[m,n1,n2,0] = 1 and                *)
(* delta_1[m,n1,n2,1] = 1 together: with delta0 + delta1 >= 1, exactly one *)
(* of the two orderings is selected.                                       *)
(***************************************************************************)
OrderVal(m, n1, n2, x, y, b0, b1) ==
    (tv(m, n1) :> x) @@ (tv(m, n2) :> y)
        @@ (d1(m, n1, n2, 0) :> b0) @@ (d1(m, n1, n2, 1) :> b1)

C24_OneOrdering ==
    NBBuilt =>
        \A m \in {2, 4, 5} : \A n1 \in Wagons, n2 \in Wagons :
            n1 < n2 =>
                LET cs == About({tv(m, n1), tv(m, n2),
                                 d1(m, n1, n2, 0), d1(m, n1, n2, 1)})
                IN \A x \in ExclDom, y \in ExclDom, b0 \in {0, 1}, b1 \in {0, 1} :
                      Sat(cs, OrderVal(m, n1, n2, x, y, b0, b1)) => b0 + b1 = 1

\* a built model in which a pair of wagons on the long machine task can be
\* ordered either way, each order with its own indicator alone at 1, and
\* in which both indicators at 1 are refused whatever the start times
C24_Witness ==
    /\ NBBuilt
    /\ LET cs == About({tv(4, 0), tv(4, 1), d1(4, 0, 1, 0), d1(4, 0, 1, 1)})
       IN /\ Cell6Body(4, 0, 1) \subseteq cs
          /\ Sat(cs, OrderVal(4, 0, 1, T[4], 0, 1, 0))
          /\ Sat(cs, OrderVal(4, 0, 1, 0, T[4], 0, 1))
          /\ \A x \in {0, T[4]}, y \in {0, T[4]} :
                ~Sat(cs, OrderVal(4, 0, 1, x, y, 1, 1))

(***************************************************************************)
(* C25: once the notebook model is built, every assignment that satisfies  *)
(* its constraints has, for each wagon n,                                  *)
(* t[M-1,n] + T[M-1] - t[0,n] >= the sum of the durations T (275 minutes); *)
(* hence no assignment satisfies the model when some wagon has             *)
(* t_d[n] - t_a[n] < 275.                                                  *)
(***************************************************************************)
RECURSIVE SumT(_)
SumT(m) == IF m = 0 THEN 0 ELSE T[m - 1] + SumT(m - 1)

SpanDom == {x \in 0 .. MaxTime : x % CalStep = 0}

\* the starts of task m of wagon n that the constraints on consecutive
\* tasks allow when task 0 starts at x0
RECURSIVE StartsFrom(_, _, _)
StartsFrom(n, m, x0) ==
    IF m = 0 THEN {x0}
    ELSE LET prev == StartsFrom(n, m - 1, x0)
             cs == About({tv(m - 1, n), tv(m, n)})
         IN {y \in SpanDom : \E x \in prev :
                Sat(cs, (tv(m - 1, n) :> x) @@ (tv(m, n) :> y))}

\* the pairs (start of task 0, start of task M-1) of wagon n that the
\* constraints on the tasks of the wagon allow
Spans(n) ==
    LET first == About({tv(0, n)})
        last == About({tv(M - 1, n)})
    IN {p \in SpanDom \X SpanDom :
            /\ Sat(first, (tv(0, n) :> p[1]))
            /\ Sat(last, (tv(M - 1, n) :> p[2]))
            /\ p[2] \in StartsFrom(n, M - 1, p[1])}

C25_MinimumStay ==
    NBBuilt =>
        \A n \in Wagons :
            /\ \A x0 \in SpanDom : \A y \in StartsFrom(n, M - 1, x0) :
                  y + T[M - 1] - x0 >= SumT(M)
            /\ t_d[n] - t_a[n] < SumT(M) => Spans(n) = {}

\* a built model with a wagon whose stay is shorter than 275 minutes and
\* another whose stay is long enough, for which the tasks can be chained
\* back to back between arrival and departure in exactly 275 minutes
C25_Witness ==
    /\ NBBuilt
    /\ SumT(M) = 275
    /\ \E n \in Wagons : t_d[n] - t_a[n] < SumT(M) /\ t_d[n] \in SpanDom
    /\ \E n \in Wagons :
          /\ t_d[n] - t_a[n] >= SumT(M)
          /\ \E p \in Spans(n) : p[2] + T[M - 1] - p[1] = SumT(M)

(***************************************************************************)
(* C26: once the README model is built, for every departure train n and    *)
(* every slot t, no assignment that satisfies the occupancy constraints    *)
(* counts the train in the formation yard and in the departure yard at t   *)
(* together, and every slot t with (start of task 1) <= 15t <= t_d[n] is   *)
(* counted in exactly one of the two yards.                                *)
(***************************************************************************)
HandOverTimes(n) == OccTimeVars("FOR", n) \cup OccTimeVars("DEP", n)

HandOverBins(n, t) == OccVars("FOR", n, t) \cup OccVars("DEP", n, t)

MaxGenTask == 3       \* the machine has the tasks 1 .. MaxGenTask
MaxHorizon == 120     \* horizons tried: MaxHorizon \div 2 and MaxHorizon

GenTasks == 1 .. MaxGenTask

start(i) == <<"start", i>>
delta(i, j) == <<"delta", i, j>>

GenVars ==
    [v \in {"start"} |-> <<MaxGenTask>>]
        @@ [v \in {"delta"} |-> <<MaxGenTask, MaxGenTask>>]

\* the big constants tried: the horizon length itself, the horizon plus
\* the duration, twice the horizon
GenInstances ==
    UNION {{[horizon |-> h, duration |-> d, M |-> big] :
                big \in {h, h + d, 2 * h}} :
           h \in {MaxHorizon \div 2, MaxHorizon}, d \in {5, 15, 30}}

GenPairs == {p \in GenTasks \X GenTasks : p[1] < p[2]}

\* start[j] + duration <= start[i] + (1 - delta) M
DisjFirst(i, j) ==
    Lin((start(j) :> 1) @@ (start(i) :> -1) @@ (delta(i, j) :> inst.M),
        "<=", inst.M - inst.duration)

\* DisjSecond with the sign of the relaxation inverted
M_DisjSecond(i, j) ==
    Lin((start(i) :> 1) @@ (start(j) :> -1) @@ (delta(i, j) :> inst.M),
        "<=", 0 - inst.duration)

\* start[i] + duration <= start[j] + delta M
DisjSecond(i, j) ==
    Lin((start(i) :> 1) @@ (start(j) :> -1) @@ (delta(i, j) :> 0 - inst.M),
        "<=", 0 - inst.duration)

Disjunctive(i, j) == {DisjFirst(i, j), DisjSecond(i, j)}

GenInit ==
    /\ pc = "gen_vars"
    /\ mvars = << >>
    /\ t_a = None
    /\ t_d = None
    /\ constrs = {}
    /\ it = 0
    /\ inst \in GenInstances
    /\ cal = None
    /\ cor = None
    /\ ma = None

GenDeclare ==
    /\ pc = "gen_vars"
    /\ mvars' = GenVars
    /\ pc' = "gen_post"
    /\ UNCHANGED <<t_a, t_d, constrs, it, inst, cal, cor, ma>>

\* the pairs of the machine are taken in any order
GenPost ==
    /\ pc = "gen_post"
    /\ \E p \in GenPairs :
          /\ ~(Disjunctive(p[1], p[2]) \subseteq constrs)
          /\ constrs' = constrs \cup Disjunctive(p[1], p[2])
    /\ pc' = IF \A p \in GenPairs : Disjunctive(p[1], p[2]) \subseteq constrs'
             THEN "gen_done" ELSE "gen_post"
    /\ UNCHANGED <<mvars, t_a, t_d, it, inst, cal, cor, ma>>

GenNext == GenDeclare \/ GenPost

SpecGen == GenInit /\ [][GenNext]_vars

GenBuilt == pc = "gen_done" /\ mvars = GenVars

\* the start times within the variable bounds [0, horizon]
GenDom == Grid(inst.horizon) \cup {inst.horizon}

GenVal(i, j, x, y, b) == (start(i) :> x) @@ (start(j) :> y) @@ (delta(i, j) :> b)

\* [x, x + duration) and [y, y + duration) do not overlap
Apart(x, y, dur) == x + dur <= y \/ y + dur <= x

(***************************************************************************)
(* C21 as stated: with M >= horizon length, for every pair of tasks i, j   *)
(* of the machine and all start times within [0, horizon], some delta in   *)
(* {0,1} satisfies the two constraints of the pair if and only if the      *)
(* intervals of the two tasks do not overlap.                              *)
(***************************************************************************)
C21_DeltaIffApart ==
    (GenBuilt /\ inst.M >= inst.horizon) =>
        \A p \in GenPairs :
            LET cs == About({start(p[1]), start(p[2]), delta(p[1], p[2])})
            IN \A x \in GenDom, y \in GenDom :
                  (\E b \in {0, 1} : Sat(cs, GenVal(p[1], p[2], x, y, b)))
                      <=> Apart(x, y, inst.duration)

(***************************************************************************)
(* C21 amended: with M >= horizon length + duration, for every pair of     *)
(* tasks i, j and all start times within [0, horizon], delta = 1 satisfies *)
(* the two constraints exactly when j ends before i starts (the first      *)
(* constraint binds, the second is relaxed) and delta = 0 exactly when i   *)
(* ends before j starts (the second binds, the first is relaxed); hence    *)
(* some delta exists if and only if the intervals do not overlap, and two  *)
(* tasks that admit a delta are at least one duration apart.               *)
(***************************************************************************)
C21_DeltaIffApartLargeM ==
    (GenBuilt /\ inst.M >= inst.horizon + inst.duration) =>
        \A p \in GenPairs :
            LET i == p[1]
                j == p[2]
                cs == About({start(i), start(j), delta(i, j)})
            IN \A x \in GenDom, y \in GenDom :
                  /\ Sat(cs, GenVal(i, j, x, y, 1)) <=> y + inst.duration <= x
                  /\ Holds(DisjSecond(i, j), GenVal(i, j, x, y, 1))
                  /\ Sat(cs, GenVal(i, j, x, y, 0)) <=> x + inst.duration <= y
                  /\ Holds(DisjFirst(i, j), GenVal(i, j, x, y, 0))
                  /\ (\E b \in {0, 1} : Sat(cs, GenVal(i, j, x, y, b)))
                        <=> Apart(x, y, inst.duration)

\* a machine whose tasks last 15 minutes, with M = horizon + duration: two
\* tasks placed at the two ends of the horizon admit a delta in either
\* order, two tasks 15 minutes apart admit one, two tasks 10 minutes apart
\* admit none
C21_Witness ==
    /\ GenBuilt
    /\ inst.duration = 15
    /\ inst.M = inst.horizon + inst.duration
    /\ LET cs == About({start(1), start(2), delta(1, 2)})
       IN /\ Disjunctive(1, 2) \subseteq cs
          /\ Sat(cs, GenVal(1, 2, inst.horizon, 0, 1))
          /\ Sat(cs, GenVal(1, 2, 0, inst.horizon, 0))
          /\ Sat(cs, GenVal(1, 2, 0, 15, 0))
          /\ \A b \in {0, 1} : ~Sat(cs, GenVal(1, 2, 0, 10, b))

(***************************************************************************)
(* README, second formalisation: the constraints of one machine m, whose   *)
(* task lasts T_x[m] and whose opening intervals are                       *)
(* [L_mach[m,2i-1], L_mach[m,2i]].  t_x[n,m] counts quarter-hours.         *)
(***************************************************************************)
MaxMXTrain == 3        \* the machine serves the trains 1 .. MaxMXTrain
MaxMachQuarter == 44   \* values tried for t_x[n,m]: 0 .. MaxMachQuarter

MXTrains == 1 .. MaxMXTrain
MachQuarters == 0 .. MaxMachQuarter

t_x(n) == <<"t_x", n>>
delta_x(n1, n2) == <<"delta_x", n1, n2>>
delta_mach(n, i) == <<"delta_mach", n, i>>

\* rows of opening limits in minutes, and task durations
L_mach ==
    {<<0, 660>>, <<0, 500, 600, 660>>, <<60, 300, 330, 660>>,
     <<0, 120, 180, 400, 450, 660>>}

MXInstances == {[T |-> d, L |-> row] : d \in {15, 20, 45}, row \in L_mach}

Intervals == 1 .. (Len(inst.L) \div 2)

MXVars ==
    [v \in {"t_x"} |-> <<MaxMXTrain>>]
        @@ [v \in {"delta_x"} |-> <<MaxMXTrain, MaxMXTrain>>]
        @@ [v \in {"delta_mach"} |-> <<MaxMXTrain, Len(inst.L) \div 2>>]

\* 15 t_x[n2,m] + T_x[m] <= 15 t_x[n1,m] + (1 - delta_x[m,n1,n2]) M_big
ExclFirst(n1, n2) ==
    Lin((t_x(n2) :> 15) @@ (t_x(n1) :> -15) @@ (delta_x(n1, n2) :> M_big),
        "<=", M_big - inst.T)

\* 15 t_x[n1,m] + T_x[m] <= 15 t_x[n2,m] - delta_x[m,n1,n2] M_big
ExclSecond(n1, n2) ==
    Lin((t_x(n1) :> 15) @@ (t_x(n2) :> -15) @@ (delta_x(n1, n2) :> M_big),
        "<=", 0 - inst.T)

\* 15 t_x[n,m] >= L_mach[m,2i-1] - (1 - delta_mach[m,n,i]) M_big
MachStart(n, i) ==
    Lin((t_x(n) :> 15) @@ (delta_mach(n, i) :> 0 - M_big),
        ">=", inst.L[2 * i - 1] - M_big)

\* MachEnd with the duration of the task forgotten
M_MachEnd(n, i) ==
    Lin((t_x(n) :> 15) @@ (delta_mach(n, i) :> M_big), "<=", inst.L[2 * i] + M_big)

\* 15 t_x[n,m] <= L_mach[m,2i] - T_x[m] + (1 - delta_mach[m,n,i]) M_big
MachEnd(n, i) ==
    Lin((t_x(n) :> 15) @@ (delta_mach(n, i) :> M_big),
        "<=", inst.L[2 * i] - inst.T + M_big)

\* sum over i of delta_mach[m,n,i] = 1
MachOne(n) == Lin([v \in {delta_mach(n, i) : i \in Intervals} |-> 1], "==", 1)

MachCalendar(n) ==
    {MachStart(n, i) : i \in Intervals} \cup {MachEnd(n, i) : i \in Intervals}
        \cup {MachOne(n)}

\* for all n1 # n2, in order
MXPairs ==
    LET pairs == {p \in MXTrains \X MXTrains : p[1] # p[2]}
        rank(p) == (p[1] - 1) * MaxMXTrain + p[2]
    IN [k \in 1 .. Cardinality(pairs) |->
            CHOOSE p \in pairs :
                Cardinality({q \in pairs : rank(q) < rank(p)}) = k - 1]

MXInit ==
    /\ pc = "mx_vars"
    /\ mvars = << >>
    /\ t_a = None
    /\ t_d = None
    /\ constrs = {}
    /\ it = 0
    /\ inst \in MXInstances
    /\ cal = None
    /\ cor = None
    /\ ma = None

MXDeclare ==
    /\ pc = "mx_vars"
    /\ mvars' = MXVars
    /\ pc' = "mx_excl"
    /\ it' = 1
    /\ UNCHANGED <<t_a, t_d, constrs, inst, cal, cor, ma>>

MXExclusion ==
    /\ pc = "mx_excl"
    /\ LET p == MXPairs[it]
       IN constrs' = constrs \cup {ExclFirst(p[1], p[2]), ExclSecond(p[1], p[2])}
    /\ pc' = IF it = Len(MXPairs) THEN "mx_cal" ELSE "mx_excl"
    /\ it' = IF it = Len(MXPairs) THEN 1 ELSE it + 1
    /\ UNCHANGED <<mvars, t_a, t_d, inst, cal, cor, ma>>

MXCalendar ==
    /\ pc = "mx_cal"
    /\ constrs' = constrs \cup MachCalendar(it)
    /\ pc' = IF it = MaxMXTrain THEN "mx_done" ELSE "mx_cal"
    /\ it' = IF it = MaxMXTrain THEN 0 ELSE it + 1
    /\ UNCHANGED <<mvars, t_a, t_d, inst, cal, cor, ma>>

MXNext == MXDeclare \/ MXExclusion \/ MXCalendar

SpecMX == MXInit /\ [][MXNext]_vars

MXBuilt == pc = "mx_done" /\ mvars = MXVars

(***************************************************************************)
(* C22: once the constraints of the machine are posted, for every pair of  *)
(* trains n1 # n2 and all start times within the horizon, some             *)
(* delta_x[m,n1,n2] in {0,1} satisfies the two constraints of the pair if  *)
(* and only if 15t[n1] >= 15t[n2] + T or 15t[n2] >= 15t[n1] + T.           *)
(***************************************************************************)
C22_LinearisationIsDisjunction ==
    MXBuilt =>
        \A n1 \in MXTrains, n2 \in MXTrains :
            n1 # n2 =>
                LET cs == About({t_x(n1), t_x(n2), delta_x(n1, n2)})
                IN \A x \in MachQuarters, y \in MachQuarters :
                      (\E b \in {0, 1} :
                          Sat(cs, (t_x(n1) :> x) @@ (t_x(n2) :> y)
                                      @@ (delta_x(n1, n2) :> b)))
                      <=> (15 * x >= 15 * y + inst.T \/ 15 * y >= 15 * x + inst.T)

(***************************************************************************)
(* Calendar membership of one task of the machine                          *)
(***************************************************************************)
SigmaVars(n) == {delta_mach(n, i) : i \in Intervals}

\* the selector that selects interval i alone
Select(n, i) == [v \in SigmaVars(n) |-> IF v = delta_mach(n, i) THEN 1 ELSE 0]

\* the task started at quarter-hour x lies entirely inside interval i
Inside(x, i) == inst.L[2 * i - 1] <= 15 * x /\ 15 * x + inst.T <= inst.L[2 * i]

\* start + duration <= I_i.end - sigma_i M
SigmaEnd(n, i) ==
    Lin((t_x(n) :> 15) @@ (delta_mach(n, i) :> M_big), "<=", inst.L[2 * i] - inst.T)

SigmaCalendar(n) ==
    {MachStart(n, i) : i \in Intervals} \cup {SigmaEnd(n, i) : i \in Intervals}
        \cup {MachOne(n)}

(***************************************************************************)
(* C23 as stated: the constraints posted for a task are                    *)
(* start >= I_i.start - (1 - sigma_i) M and                                *)
(* start + duration <= I_i.end - sigma_i M for each i, with                *)
(* sum sigma_i = 1, and they admit a start time if and only if             *)
(* [start, start + duration] lies entirely inside one interval I_i.        *)
(***************************************************************************)
C23_SigmaMembership ==
    MXBuilt =>
        \A n \in MXTrains :
            /\ SigmaCalendar(n) \subseteq constrs
            /\ \A x \in MachQuarters :
                  (\E sg \in [SigmaVars(n) -> {0, 1}] :
                      Sat(SigmaCalendar(n), (t_x(n) :> x) @@ sg))
                  <=> (\E i \in Intervals : Inside(x, i))

(***************************************************************************)
(* C23 amended: the constraints posted for a task are                      *)
(* 15t >= L[2i-1] - (1 - delta_i) M_big and                                *)
(* 15t + T <= L[2i] + (1 - delta_i) M_big for each i, with                 *)
(* sum delta_i = 1.  Selecting interval i alone satisfies them exactly     *)
(* when [15t, 15t + T] lies entirely inside interval i, and no other       *)
(* selection than that of exactly one interval satisfies them; hence they  *)
(* admit a start time if and only if the task lies inside one interval,    *)
(* and every interval that contains the task can be selected.              *)
(***************************************************************************)
C23_CalendarMembership ==
    MXBuilt =>
        \A n \in MXTrains :
            LET cs == About({t_x(n)} \cup SigmaVars(n))
            IN \A x \in MachQuarters :
                  /\ \A i \in Intervals :
                        Sat(cs, (t_x(n) :> x) @@ Select(n, i)) <=> Inside(x, i)
                  /\ \A sg \in [SigmaVars(n) -> {0, 1}] :
                        Sat(cs, (t_x(n) :> x) @@ sg) =>
                            \E i \in Intervals : sg = Select(n, i)

\* a machine closed during [500, 600) with a task of 20 minutes: the
\* selection of [0, 500] admits the start 480 and no later one, the start
\* 495 is admitted by no selection, and a start after the closure is
\* admitted by the selection of the second interval
C23_Witness ==
    /\ MXBuilt
    /\ inst.T = 20
    /\ Len(inst.L) = 4 /\ inst.L[1] = 0 /\ inst.L[2] = 500 /\ inst.L[3] = 600
    /\ LET cs == About({t_x(1)} \cup SigmaVars(1))
       IN /\ MachCalendar(1) \subseteq cs
          /\ Sat(cs, (t_x(1) :> 32) @@ Select(1, 1))
          /\ \A x \in MachQuarters :
                Sat(cs, (t_x(1) :> x) @@ Select(1, 1)) <=> 15 * x <= 480
          /\ \A sg \in [SigmaVars(1) -> {0, 1}] : ~Sat(cs, (t_x(1) :> 33) @@ sg)
          /\ Sat(cs, (t_x(1) :> 40) @@ Select(1, 2))

====
